---------------------------- MODULE Spec2Model ----------------------------
(***************************************************************************)
(* A model of the Dr-Scanner document pipeline (scanner.py) and of the     *)
(* batch state of its window (main.py).                                    *)
(*                                                                         *)
(* Three specifications share the module:                                  *)
(*   SpecGeom : order_points and four_point_transform applied to every     *)
(*              4-tuple of integer points of a small grid;                 *)
(*   SpecPipe : detect_document, preprocess_image and extract_text applied *)
(*              to images drawn from a catalogue of contour lists;         *)
(*   Spec     : MainWindow's load_images and scan_documents handlers.      *)
(*                                                                         *)
(* Points are <<x, y>> with integer coordinates, as cv2.approxPolyDP       *)
(* returns them.  The float32 arithmetic of four_point_transform is exact  *)
(* on the coordinates used here (all squares and sums are below 2^24), so  *)
(* int(np.sqrt(.)) is the integer square root.                             *)
(***************************************************************************)
EXTENDS Integers, Sequences, FiniteSets, TLC

VARIABLES
    \* SpecGeom
    gpc,            \* "idle" | "start" | "ordered" | "reordered" | "transformed"
    pts,            \* the 4 input points
    rect,           \* order_points' result (<<>> before the call)
    rect2,          \* order_points applied to rect (<<>> before the call)
    dims,           \* <<width, height>> of the image four_point_transform returned
    \* SpecPipe
    ppc,            \* "idle" | "start" | "detected" | "preprocessed" | "extracted"
    image,          \* the input image
    located,        \* detect_document's scan: the order examined, the candidate's index
    result,         \* the image (or the error) the last call returned
    ocr,            \* what the OCR collaborator did on the last call
    extracted,      \* what extract_text returned (or that it raised)
    \* Spec (MainWindow)
    disk,           \* path -> whether cv2.imread can read the file there
    image_paths,    \* self.image_paths
    images,         \* self.images
    processed_images, \* self.processed_images
    ocr_texts,      \* self.ocr_texts
    list_widget,    \* self.list_widget items
    text_edit,      \* self.text_edit lines
    ocr_calls,      \* what the OCR collaborator did in the calls that gave ocr_texts
    handler,        \* the handler that ran last
    raised          \* whether it ended by an exception

geomVars == <<gpc, pts, rect, rect2, dims>>
pipeVars == <<ppc, image, located, result, ocr, extracted>>
guiVars  == <<disk, image_paths, images, processed_images, ocr_texts,
              list_widget, text_edit, ocr_calls, handler, raised>>
vars == <<geomVars, pipeVars, guiVars>>

---------------------------------------------------------------------------
(* Bounds *)

\* Grid coordinates of SpecGeom run over 0..GridMax.
GridMax == 3

\* The window's file dialog offers the paths 1..MaxFiles; load_images is not
\* taken when it would leave more than MaxLog lines in text_edit.
MaxFiles == 2
MaxLog == 3

\* An image of SpecPipe holds at most MaxContours contours.
MaxContours == 2
\* cv2.contourArea of a raw contour runs over 1..MaxArea.
MaxArea == 2

Grid == 0..GridMax
Point == Grid \X Grid

---------------------------------------------------------------------------
(* numpy helpers *)

Min(S) == CHOOSE m \in S : \A n \in S : m <= n
Max(S) == CHOOSE m \in S : \A n \in S : m >= n
Range(f) == {f[i] : i \in DOMAIN f}
Abs(n) == IF n < 0 THEN -n ELSE n

\* np.argmin: the FIRST index holding the minimum.
argmin(v) == CHOOSE i \in DOMAIN v :
                 /\ \A j \in DOMAIN v : v[i] <= v[j]
                 /\ \A j \in DOMAIN v : j < i => v[j] > v[i]

\* np.argmax: the FIRST index holding the maximum.
argmax(v) == CHOOSE i \in DOMAIN v :
                 /\ \A j \in DOMAIN v : v[i] >= v[j]
                 /\ \A j \in DOMAIN v : j < i => v[j] < v[i]

\* int(np.sqrt(n)) for an exactly represented n >= 0: the integer square root.
IntSqrt(n) == CHOOSE r \in 0..n : r * r <= n /\ n < (r + 1) * (r + 1)

\* int(np.sqrt((a[0]-b[0])**2 + (a[1]-b[1])**2))
IntDist(a, b) == IntSqrt((a[1] - b[1]) * (a[1] - b[1]) + (a[2] - b[2]) * (a[2] - b[2]))

---------------------------------------------------------------------------
(* scanner.order_points *)

\* s = pts.sum(axis=1)
PtSum(p) == [i \in DOMAIN p |-> p[i][1] + p[i][2]]
\* diff = np.diff(pts, axis=1), i.e. y - x
PtDiff(p) == [i \in DOMAIN p |-> p[i][2] - p[i][1]]

\* rect = (top-left, top-right, bottom-right, bottom-left)
order_points(p) ==
    <<p[argmin(PtSum(p))], p[argmin(PtDiff(p))],
      p[argmax(PtSum(p))], p[argmax(PtDiff(p))]>>

---------------------------------------------------------------------------
(* scanner.four_point_transform: the target size *)

\* A slip that adds the two widths instead of taking the larger.
maxWidth_sum(r) == IntDist(r[3], r[4]) + IntDist(r[2], r[1])

\* maxWidth = max(int(widthA), int(widthB)) over rect = (tl, tr, br, bl)
maxWidth(r) == Max({IntDist(r[3], r[4]), IntDist(r[2], r[1])})
\* maxHeight = max(int(heightA), int(heightB))
maxHeight(r) == Max({IntDist(r[2], r[3]), IntDist(r[1], r[4])})

\* cv2.warpPerspective(image, M, (maxWidth, maxHeight)): the destination is
\* created with dsize, or with the source's size when dsize is empty
\* (a width or a height of 0); channels are those of the source.
warpPerspective(img, dw, dh) ==
    IF dw <= 0 \/ dh <= 0
    THEN [ok |-> TRUE, w |-> img.w, h |-> img.h, ch |-> img.ch,
          binary |-> FALSE, calls |-> {"warpPerspective"}, path |-> img.path]
    ELSE [ok |-> TRUE, w |-> dw, h |-> dh, ch |-> img.ch,
          binary |-> FALSE, calls |-> {"warpPerspective"}, path |-> img.path]

four_point_transform(img, p) ==
    LET r == order_points(p)
        warped == warpPerspective(img, maxWidth(r), maxHeight(r))
    IN  [warped EXCEPT !.calls = @ \cup {"four_point_transform", "order_points",
                                          "getPerspectiveTransform"}]

---------------------------------------------------------------------------
(* cv2 calls of detect_document and preprocess_image *)

\* A raised cv2.error, in the shape of a returned image.
Error(calls) == [ok |-> FALSE, w |-> 0, h |-> 0, ch |-> 0, binary |-> FALSE,
                 calls |-> calls, path |-> 0]

\* An input image as a returned value.
AsResult(img) == [ok |-> TRUE, w |-> img.w, h |-> img.h, ch |-> img.ch,
                  binary |-> FALSE, calls |-> {}, path |-> img.path]

\* cv2.cvtColor(x, cv2.COLOR_BGR2GRAY): a single-channel image of the same
\* size; raises cv2.error unless x has 3 (or 4) channels.
cvtColor_BGR2GRAY(r) ==
    IF r.ch \in {3, 4}
    THEN [r EXCEPT !.ch = 1, !.calls = @ \cup {"cvtColor"}]
    ELSE Error(r.calls \cup {"cvtColor"})

RECURSIVE ShoelaceFrom(_, _)
ShoelaceFrom(p, i) ==
    IF i > Len(p) THEN 0
    ELSE LET j == IF i = Len(p) THEN 1 ELSE i + 1
         IN  p[i][1] * p[j][2] - p[j][1] * p[i][2] + ShoelaceFrom(p, i + 1)

\* cv2.contourArea(approx), doubled: the polygon's area is a multiple of 0.5.
contourArea2(p) == Abs(ShoelaceFrom(p, 1))

\* cv2.boundingRect(approx): <<w, h>> of the upright rectangle, in pixels.
boundingRect(p) ==
    <<Max({p[i][1] : i \in DOMAIN p}) - Min({p[i][1] : i \in DOMAIN p}) + 1,
      Max({p[i][2] : i \in DOMAIN p}) - Min({p[i][2] : i \in DOMAIN p}) + 1>>

---------------------------------------------------------------------------
(* scanner.detect_document *)

\* 0.2 < area_ratio < 0.7, in tenths
AreaLoTenths == 2
AreaHiTenths == 7
\* 0.5 < aspect_ratio < 2.0, in halves
AspectLoHalves == 1
AspectHiHalves == 4

\* A slip that lets a ratio equal to a threshold through.
Qualifies_inclusive(approx, image_area) ==
    /\ Len(approx) = 4
    /\ 10 * contourArea2(approx) >= 2 * AreaLoTenths * image_area
    /\ 10 * contourArea2(approx) <= 2 * AreaHiTenths * image_area
    /\ 2 * boundingRect(approx)[1] >= AspectLoHalves * boundingRect(approx)[2]
    /\ 2 * boundingRect(approx)[1] <= AspectHiHalves * boundingRect(approx)[2]

\* The three nested tests on approx; image_area = shape[0] * shape[1].
\* area_ratio = (contourArea2 / 2) / image_area and aspect_ratio = w / h are
\* compared exactly: the quotients of such small integers never round onto
\* a threshold they differ from.
Qualifies(approx, image_area) ==
    /\ Len(approx) = 4
    /\ 10 * contourArea2(approx) > 2 * AreaLoTenths * image_area
    /\ 10 * contourArea2(approx) < 2 * AreaHiTenths * image_area
    /\ 2 * boundingRect(approx)[1] > AspectLoHalves * boundingRect(approx)[2]
    /\ 2 * boundingRect(approx)[1] < AspectHiHalves * boundingRect(approx)[2]

\* c goes behind every contour whose area is >= its own.
RECURSIVE InsertByArea(_, _)
InsertByArea(sorted, c) ==
    IF sorted = <<>> THEN <<c>>
    ELSE IF Head(sorted).area >= c.area
         THEN <<Head(sorted)>> \o InsertByArea(Tail(sorted), c)
         ELSE <<c>> \o sorted

\* sorted(contours, key=cv2.contourArea, reverse=True): stable, equal areas
\* keep their order.
RECURSIVE SortedByArea(_)
SortedByArea(cs) ==
    IF cs = <<>> THEN <<>>
    ELSE InsertByArea(SortedByArea(SubSeq(cs, 1, Len(cs) - 1)), cs[Len(cs)])

\* A slip that sets the candidate as soon as approx has 4 vertices.
RECURSIVE ScanLoose(_, _, _)
ScanLoose(cs, i, image_area) ==
    IF i > Len(cs) THEN 0
    ELSE IF Len(cs[i].approx) = 4 THEN i
    ELSE ScanLoose(cs, i + 1, image_area)

\* for c in contours: ... candidate = approx; break.  The index of the
\* candidate in the sorted list, 0 for None.
RECURSIVE ScanFrom(_, _, _)
ScanFrom(cs, i, image_area) ==
    IF i > Len(cs) THEN 0
    ELSE IF Qualifies(cs[i].approx, image_area) THEN i
    ELSE ScanFrom(cs, i + 1, image_area)

\* What the locator's scan did: whether it was reached, the order it examined
\* the contours in, and the candidate's index in that order (0 for None).
DetectScan(img) ==
    IF ~cvtColor_BGR2GRAY(AsResult(img)).ok
    THEN [scanned |-> FALSE, order |-> <<>>, k |-> 0]
    ELSE [scanned |-> TRUE, order |-> SortedByArea(img.contours),
          k |-> ScanFrom(SortedByArea(img.contours), 1, img.h * img.w)]

detect_document(img) ==
    LET gray == cvtColor_BGR2GRAY(AsResult(img))
        scan == DetectScan(img)
        seen == {"cvtColor", "GaussianBlur", "Canny", "findContours"}
    IN  IF ~gray.ok THEN gray
        ELSE IF scan.k # 0
             THEN [four_point_transform(img, scan.order[scan.k].approx)
                       EXCEPT !.calls = @ \cup seen]
             ELSE [AsResult(img) EXCEPT !.calls = seen]

---------------------------------------------------------------------------
(* scanner.preprocess_image *)

preprocess_image(img) ==
    LET detected == detect_document(img)
        gray == cvtColor_BGR2GRAY(detected)
    IN  IF ~detected.ok THEN detected
        ELSE IF ~gray.ok THEN gray
        ELSE \* CLAHE, Otsu's threshold, opening and closing keep the size
             [gray EXCEPT !.binary = TRUE,
                          !.calls = @ \cup {"createCLAHE", "threshold", "morphologyEx"}]

---------------------------------------------------------------------------
(* scanner.extract_text *)

Whitespace == {" ", "\n", "\t"}

RECURSIVE LStrip(_)
LStrip(t) == IF t # <<>> /\ Head(t) \in Whitespace THEN LStrip(Tail(t)) ELSE t

RECURSIVE RStrip(_)
RStrip(t) == IF t # <<>> /\ t[Len(t)] \in Whitespace
             THEN RStrip(SubSeq(t, 1, Len(t) - 1)) ELSE t

\* str.strip() on a text held as a sequence of characters
strip(t) == RStrip(LStrip(t))

\* What pytesseract.image_to_string does with a call: it returns raw text or
\* raises one of its exceptions, all of them subclasses of Exception.
OcrExceptions == {"TesseractNotFoundError", "TesseractError"}
OcrTexts == {<<" ", "\n">>, <<" ", "a", " ", "b", "\n">>}
OcrOutcomes ==
    {[raised |-> FALSE, exc |-> "", raw |-> t] : t \in OcrTexts}
    \cup {[raised |-> TRUE, exc |-> e, raw |-> <<>>] : e \in OcrExceptions}

\* A slip that lets the collaborator's exception through.
extract_text_propagates(img, out) ==
    IF out.raised
    THEN [ok |-> FALSE, text |-> <<>>]
    ELSE [ok |-> TRUE, text |-> strip(out.raw)]

\* try: return text.strip()   except Exception: return ""
extract_text(img, out) ==
    IF out.raised
    THEN [ok |-> TRUE, text |-> <<>>]
    ELSE [ok |-> TRUE, text |-> strip(out.raw)]

---------------------------------------------------------------------------
(* SpecGeom: the geometry utilities on every 4-tuple of grid points *)

\* The image the grid's points lie in.
GeomImage == [w |-> GridMax + 1, h |-> GridMax + 1, ch |-> 3,
              contours |-> <<>>, path |-> 0]

PipeIdle ==
    /\ ppc = "idle"
    /\ image = [w |-> 1, h |-> 1, ch |-> 3, contours |-> <<>>, path |-> 0]
    /\ located = [scanned |-> FALSE, order |-> <<>>, k |-> 0]
    /\ result = [ok |-> TRUE, w |-> 0, h |-> 0, ch |-> 0, binary |-> FALSE,
                 calls |-> {}, path |-> 0]
    /\ ocr = [raised |-> FALSE, exc |-> "", raw |-> <<>>]
    /\ extracted = [ok |-> TRUE, text |-> <<>>]

GuiIdle ==
    /\ disk = <<>>
    /\ image_paths = <<>>
    /\ images = <<>>
    /\ processed_images = <<>>
    /\ ocr_texts = <<>>
    /\ list_widget = <<>>
    /\ text_edit = <<>>
    /\ ocr_calls = <<>>
    /\ handler = "idle"
    /\ raised = FALSE

GeomIdle ==
    /\ gpc = "idle"
    /\ pts = <<>>
    /\ rect = <<>>
    /\ rect2 = <<>>
    /\ dims = <<0, 0>>

InitGeom ==
    /\ gpc = "start"
    /\ pts \in Point \X Point \X Point \X Point
    /\ rect = <<>>
    /\ rect2 = <<>>
    /\ dims = <<0, 0>>
    /\ PipeIdle
    /\ GuiIdle

\* rect = order_points(pts)
OrderPoints ==
    /\ gpc = "start"
    /\ rect' = order_points(pts)
    /\ gpc' = "ordered"
    /\ UNCHANGED <<pts, rect2, dims, pipeVars, guiVars>>

\* order_points applied to its own output
Reorder ==
    /\ gpc = "ordered"
    /\ rect2' = order_points(rect)
    /\ gpc' = "reordered"
    /\ UNCHANGED <<pts, rect, dims, pipeVars, guiVars>>

\* warped = four_point_transform(image, pts); dims is warped's (width, height)
FourPointTransform ==
    /\ gpc = "start"
    /\ LET warped == four_point_transform(GeomImage, pts)
       IN  /\ dims' = <<warped.w, warped.h>>
           /\ rect' = order_points(pts)
    /\ gpc' = "transformed"
    /\ UNCHANGED <<pts, rect2, pipeVars, guiVars>>

NextGeom == OrderPoints \/ Reorder \/ FourPointTransform

SpecGeom == InitGeom /\ [][NextGeom]_vars

---------------------------------------------------------------------------
(* SpecPipe: the locator, the orchestrator and the OCR step on images whose *)
(* contours (as cv2.findContours and cv2.approxPolyDP give them) are drawn  *)
(* from a catalogue                                                          *)

\* Approximated polygons: rectangles inside, on and outside each threshold,
\* a trapezoid, a skewed quadrilateral, a triangle and a pentagon.
Polys ==
    { <<<<1, 1>>, <<8, 1>>, <<8, 7>>, <<1, 7>>>>,
      <<<<2, 2>>, <<7, 2>>, <<7, 7>>, <<2, 7>>>>,
      <<<<0, 0>>, <<5, 0>>, <<5, 4>>, <<0, 4>>>>,
      <<<<0, 0>>, <<7, 0>>, <<7, 3>>, <<0, 3>>>>,
      <<<<0, 0>>, <<3, 0>>, <<3, 7>>, <<0, 7>>>>,
      <<<<0, 0>>, <<9, 0>>, <<9, 9>>, <<0, 9>>>>,
      <<<<0, 0>>, <<9, 0>>, <<9, 9>>, <<0, 2>>>>,
      <<<<4, 0>>, <<0, 0>>, <<5, 5>>, <<9, 2>>>>,
      <<<<0, 0>>, <<9, 0>>, <<0, 9>>>>,
      <<<<0, 0>>, <<9, 0>>, <<9, 5>>, <<5, 9>>, <<0, 9>>>>,
      <<<<0, 0>>, <<15, 0>>, <<15, 14>>, <<0, 14>>>>,
      <<<<2, 2>>, <<16, 2>>, <<16, 12>>, <<2, 12>>>> }

\* <<width, height>> of the input images
Sizes == { <<10, 10>>, <<20, 15>> }

\* Contour points are pixel coordinates of the image.
Inside(p, w, h) == \A i \in DOMAIN p : p[i][1] \in 0..(w - 1) /\ p[i][2] \in 0..(h - 1)

SeqsUpTo(S, n) == UNION {[1..k -> S] : k \in 0..n}

ContoursOf(w, h) ==
    {[area |-> a, approx |-> q] : a \in 1..MaxArea, q \in {q \in Polys : Inside(q, w, h)}}

InitPipe ==
    /\ ppc = "start"
    /\ \E sz \in Sizes, c \in {1, 3} :
         \E cs \in SeqsUpTo(ContoursOf(sz[1], sz[2]), MaxContours) :
            image = [w |-> sz[1], h |-> sz[2], ch |-> c, contours |-> cs, path |-> 0]
    /\ located = [scanned |-> FALSE, order |-> <<>>, k |-> 0]
    /\ result = [ok |-> TRUE, w |-> 0, h |-> 0, ch |-> 0, binary |-> FALSE,
                 calls |-> {}, path |-> 0]
    /\ ocr = [raised |-> FALSE, exc |-> "", raw |-> <<>>]
    /\ extracted = [ok |-> TRUE, text |-> <<>>]
    /\ GeomIdle
    /\ GuiIdle

\* result = detect_document(image)
DetectDocument ==
    /\ ppc = "start"
    /\ result' = detect_document(image)
    /\ located' = DetectScan(image)
    /\ ppc' = "detected"
    /\ UNCHANGED <<image, ocr, extracted, geomVars, guiVars>>

\* result = preprocess_image(image)
PreprocessImage ==
    /\ ppc = "start"
    /\ result' = preprocess_image(image)
    /\ located' = DetectScan(image)
    /\ ppc' = "preprocessed"
    /\ UNCHANGED <<image, ocr, extracted, geomVars, guiVars>>

\* extracted = extract_text(result), the OCR collaborator doing `out`
ExtractText ==
    /\ ppc = "preprocessed"
    /\ result.ok
    /\ \E out \in OcrOutcomes :
         /\ ocr' = out
         /\ extracted' = extract_text(result, out)
    /\ ppc' = "extracted"
    /\ UNCHANGED <<image, located, result, geomVars, guiVars>>

NextPipe == DetectDocument \/ PreprocessImage \/ ExtractText

SpecPipe == InitPipe /\ [][NextPipe]_vars

---------------------------------------------------------------------------
(* Spec: MainWindow.load_images and MainWindow.scan_documents *)

Paths == 1..MaxFiles

\* What the files decode to when they are readable: a page-less photo at the
\* even paths, a photo of a page at the odd ones.
FileKinds ==
    << [w |-> 10, h |-> 10, contours |-> <<>>],
       [w |-> 10, h |-> 10,
        contours |-> <<[area |-> 1,
                        approx |-> <<<<1, 1>>, <<8, 1>>, <<8, 7>>, <<1, 7>>>>]>>] >>

\* cv2.imread(file) of a readable file: always a 3-channel BGR image.
imread(file) ==
    [w |-> FileKinds[(file % 2) + 1].w, h |-> FileKinds[(file % 2) + 1].h, ch |-> 3,
     contours |-> FileKinds[(file % 2) + 1].contours, path |-> file]

\* What QFileDialog.getOpenFileNames returns: distinct paths, none on Cancel.
Selections ==
    {f \in SeqsUpTo(Paths, MaxFiles) : \A i, j \in DOMAIN f : i # j => f[i] # f[j]}

\* for file in files: ... self.images.append(img) / "Failed to load"
RECURSIVE LoadLoop(_, _, _, _)
LoadLoop(d, files, i, acc) ==
    IF i > Len(files) THEN acc
    ELSE IF d[files[i]]
         THEN LoadLoop(d, files, i + 1,
                       [acc EXCEPT !.images = Append(@, imread(files[i])),
                                   !.list = Append(@, files[i])])
         ELSE LoadLoop(d, files, i + 1,
                       [acc EXCEPT !.log = Append(@, [kind |-> "Failed to load",
                                                      path |-> files[i], len |-> 0])])

load_images ==
    \E files \in Selections :
        LET r == LoadLoop(disk, files, 1,
                          [images |-> <<>>, list |-> <<>>, log |-> text_edit])
        IN  /\ Len(r.log) <= MaxLog
            /\ IF files # <<>>
               THEN /\ image_paths' = files
                    /\ images' = r.images
                    /\ processed_images' = <<>>
                    /\ ocr_texts' = <<>>
                    /\ ocr_calls' = <<>>
                    /\ list_widget' = r.list
                    /\ text_edit' = r.log
               ELSE UNCHANGED <<image_paths, images, processed_images, ocr_texts,
                                ocr_calls, list_widget, text_edit>>
            /\ handler' = "load_images"
            /\ raised' = FALSE
            /\ UNCHANGED <<disk, geomVars, pipeVars>>

\* A slip that leaves the loop at the first image without text.
RECURSIVE ScanLoop_break(_, _, _, _, _)
ScanLoop_break(imgs, paths, outs, i, acc) ==
    IF i > Len(imgs) THEN acc
    ELSE LET processed == preprocess_image(imgs[i])
             t == extract_text(processed, outs[i])
         IN  IF ~processed.ok \/ ~t.ok THEN [acc EXCEPT !.raised = TRUE]
             ELSE IF t.text = <<>> THEN acc
             ELSE ScanLoop_break(imgs, paths, outs, i + 1,
                    [acc EXCEPT !.processed = Append(@, processed),
                                !.texts = Append(@, t.text),
                                !.calls = Append(@, outs[i]),
                                !.log = Append(@, [kind |-> "Processed",
                                                   path |-> paths[i],
                                                   len |-> Len(t.text)])])

\* for idx, img in enumerate(self.images): ...   An exception leaves the loop
\* and the handler, with what was appended so far.
RECURSIVE ScanLoop(_, _, _, _, _)
ScanLoop(imgs, paths, outs, i, acc) ==
    IF i > Len(imgs) THEN acc
    ELSE LET processed == preprocess_image(imgs[i])
             t == extract_text(processed, outs[i])
         IN  IF ~processed.ok THEN [acc EXCEPT !.raised = TRUE]
             ELSE IF ~t.ok
                  THEN [acc EXCEPT !.raised = TRUE, !.calls = Append(@, outs[i])]
                  ELSE ScanLoop(imgs, paths, outs, i + 1,
                         [acc EXCEPT !.processed = Append(@, processed),
                                     !.texts = Append(@, t.text),
                                     !.calls = Append(@, outs[i]),
                                     !.log = Append(@, [kind |-> "Processed",
                                                        path |-> paths[i],
                                                        len |-> Len(t.text)])])

\* The OCR outcomes drawn in a scan: one failure, a blank page, a text.
ScanOutcomes == {o \in OcrOutcomes : o.exc \in {"", "TesseractError"}}

scan_documents ==
    /\ IF images = <<>>
       THEN /\ text_edit' = <<[kind |-> "Please load images first.",
                               path |-> 0, len |-> 0]>>
            /\ raised' = FALSE
            /\ UNCHANGED <<processed_images, ocr_texts, ocr_calls>>
       ELSE \E outs \in [1..Len(images) -> ScanOutcomes] :
               LET r == ScanLoop(images, image_paths, outs, 1,
                                 [processed |-> <<>>, texts |-> <<>>, log |-> <<>>,
                                  calls |-> <<>>, raised |-> FALSE])
               IN  /\ processed_images' = r.processed
                   /\ ocr_texts' = r.texts
                   /\ text_edit' = r.log
                   /\ ocr_calls' = r.calls
                   /\ raised' = r.raised
    /\ handler' = "scan_documents"
    /\ UNCHANGED <<disk, image_paths, images, list_widget, geomVars, pipeVars>>

Init ==
    /\ disk \in [Paths -> BOOLEAN]
    /\ image_paths = <<>>
    /\ images = <<>>
    /\ processed_images = <<>>
    /\ ocr_texts = <<>>
    /\ list_widget = <<>>
    /\ text_edit = <<>>
    /\ ocr_calls = <<>>
    /\ handler = "init"
    /\ raised = FALSE
    /\ GeomIdle
    /\ PipeIdle

Next == load_images \/ scan_documents

Spec == Init /\ [][Next]_vars

---------------------------------------------------------------------------
(* Properties *)

\* (b - o) x (c - o)
Cross(o, b, c) == (b[1] - o[1]) * (c[2] - o[2]) - (b[2] - o[2]) * (c[1] - o[1])

\* p lists the corners of a strictly convex quadrilateral in cyclic order:
\* 4 distinct points, no three collinear, not self-intersecting.
ConvexQuad(p) ==
    /\ Len(p) = 4
    /\ \/ \A i \in 1..4 : Cross(p[i], p[(i % 4) + 1], p[((i + 1) % 4) + 1]) > 0
       \/ \A i \in 1..4 : Cross(p[i], p[(i % 4) + 1], p[((i + 1) % 4) + 1]) < 0

\* p is given as (top-left, top-right, bottom-right, bottom-left): the
\* top-left has the least x+y, the bottom-right the greatest, the top-right
\* the least y-x and the bottom-left the greatest.
CanonicalOrder(p) ==
    /\ \A i \in 1..4 : p[1][1] + p[1][2] <= p[i][1] + p[i][2]
    /\ \A i \in 1..4 : p[3][1] + p[3][2] >= p[i][1] + p[i][2]
    /\ \A i \in 1..4 : p[2][2] - p[2][1] <= p[i][2] - p[i][1]
    /\ \A i \in 1..4 : p[4][2] - p[4][1] >= p[i][2] - p[i][1]

\* The squared distance of a and b.
Dist2(a, b) == (a[1] - b[1]) * (a[1] - b[1]) + (a[2] - b[2]) * (a[2] - b[2])

\* n = floor(max(sqrt(d1), sqrt(d2)))
IsFloorOfMaxRoot(n, d1, d2) ==
    /\ n >= 0
    /\ n * n <= Max({d1, d2})
    /\ Max({d1, d2}) < (n + 1) * (n + 1)

\* The polygon meets the locator's three conditions in an image of w x h:
\* 4 vertices, 1/5 < area / (w h) < 7/10 and 1/2 < bw / bh < 2.
Meets(poly, w, h) ==
    LET bw == Max({poly[i][1] : i \in DOMAIN poly}) - Min({poly[i][1] : i \in DOMAIN poly}) + 1
        bh == Max({poly[i][2] : i \in DOMAIN poly}) - Min({poly[i][2] : i \in DOMAIN poly}) + 1
        a2 == contourArea2(poly)
    IN  /\ Cardinality(DOMAIN poly) = 4
        /\ 5 * a2 > 2 * w * h
        /\ 10 * a2 < 14 * w * h
        /\ 2 * bw > bh
        /\ bw < 2 * bh

Count(seq, x) == Cardinality({i \in DOMAIN seq : seq[i] = x})

\* C1: the locator examines the contours in descending order of area and
\* selects the first one whose polygon has 4 vertices, an area ratio strictly
\* between 0.2 and 0.7 and a bounding-box aspect strictly between 0.5 and 2.0:
\* no contour before the selected one meets the conditions, the selected one
\* meets them all, and none is selected only when none meets them.
C1_FirstQualifying ==
    (ppc \in {"detected", "preprocessed"} /\ located.scanned) =>
        /\ Len(located.order) = Len(image.contours)
        /\ \A c \in Range(image.contours) :
               Count(located.order, c) = Count(image.contours, c)
        /\ \A i, j \in DOMAIN located.order :
               i < j => located.order[i].area >= located.order[j].area
        /\ located.k \in 0..Len(located.order)
        /\ \A j \in DOMAIN located.order :
               (located.k = 0 \/ j < located.k)
                   => ~Meets(located.order[j].approx, image.w, image.h)
        /\ located.k # 0 => Meets(located.order[located.k].approx, image.w, image.h)
        /\ ("four_point_transform" \in result.calls) <=> (located.k # 0)

\* The contours are examined in another order than given, the largest has an
\* area ratio of exactly 0.2 and is passed over, and the second is selected.
C1_Witness ==
    /\ ppc = "detected"
    /\ located.scanned
    /\ located.k = 2
    /\ located.order # image.contours
    /\ Len(located.order[1].approx) = 4
    /\ 5 * contourArea2(located.order[1].approx) = 2 * image.w * image.h

\* C2: when no contour meets the conditions, the locator returns the image
\* it was given without raising, and preprocess_image returns an image of
\* exactly the input's width and height; four_point_transform is not called.
C2_NoDocumentFullFrame ==
    (/\ ppc \in {"detected", "preprocessed"}
     /\ located.scanned
     /\ \A i \in DOMAIN image.contours :
            ~Meets(image.contours[i].approx, image.w, image.h)) =>
        /\ result.ok
        /\ located.k = 0
        /\ result.w = image.w
        /\ result.h = image.h
        /\ result.calls \cap {"four_point_transform", "order_points",
                              "getPerspectiveTransform", "warpPerspective"} = {}
        /\ ppc = "detected" => result.ch = image.ch /\ ~result.binary

\* preprocess_image ran on a 20 x 15 image whose contours are quadrilaterals
\* that all miss a condition, and returned a 20 x 15 image.
C2_Witness ==
    /\ ppc = "preprocessed"
    /\ located.scanned
    /\ located.k = 0
    /\ image.w # image.h
    /\ Len(image.contours) = MaxContours
    /\ \A i \in DOMAIN image.contours : Len(image.contours[i].approx) = 4
    /\ result.ok
    /\ result.w = image.w
    /\ result.h = image.h

\* C3: preprocess_image never raises on an image of at least 1 x 1 pixels
\* with 1 or 3 channels, and returns a single-channel binary image.
C3_NeverRaises ==
    (ppc = "preprocessed" /\ image.w >= 1 /\ image.h >= 1 /\ image.ch \in {1, 3}) =>
        /\ result.ok
        /\ result.ch = 1
        /\ result.binary

\* C4: whenever the OCR call raises, extract_text returns the empty string
\* and raises nothing.
C4_OcrFailureAbsorbed ==
    (ppc = "extracted" /\ ocr.raised) =>
        /\ extracted.ok
        /\ extracted.text = <<>>

\* extract_text ran while the collaborator raised.
C4_Witness ==
    /\ ppc = "extracted"
    /\ ocr.raised
    /\ ocr.exc \in OcrExceptions
    /\ extracted.text = <<>>

\* C5: a scan over N loaded images ends with N results, the i-th made from
\* the i-th image and from the i-th OCR call, also when an OCR call failed.
C5_BatchComplete ==
    (handler = "scan_documents" /\ images # <<>>) =>
        /\ ~raised
        /\ Len(processed_images) = Len(images)
        /\ Len(ocr_texts) = Len(images)
        /\ Len(ocr_calls) = Len(images)
        /\ \A i \in DOMAIN images :
               /\ processed_images[i].ok
               /\ processed_images[i].path = images[i].path
               /\ ocr_calls[i].raised => ocr_texts[i] = <<>>
               /\ ~ocr_calls[i].raised => ocr_texts[i] = strip(ocr_calls[i].raw)

\* A scan of two images whose first OCR call failed and whose second gave text.
C5_Witness ==
    /\ handler = "scan_documents"
    /\ Len(images) = 2
    /\ Len(ocr_calls) = 2
    /\ ocr_calls[1].raised
    /\ ~ocr_calls[2].raised
    /\ Len(processed_images) = 2
    /\ Len(ocr_texts) = 2
    /\ ocr_texts[2] # <<>>

\* C6: for every non-degenerate quadrilateral the rectified image is
\* floor(max(|br - bl|, |tr - tl|)) wide and floor(max(|tr - br|, |tl - bl|))
\* high, over the corners order_points assigns, and both are above 0.
C6_RectifiedSize ==
    (gpc = "transformed" /\ ConvexQuad(pts)) =>
        /\ IsFloorOfMaxRoot(dims[1], Dist2(rect[3], rect[4]), Dist2(rect[2], rect[1]))
        /\ IsFloorOfMaxRoot(dims[2], Dist2(rect[2], rect[3]), Dist2(rect[1], rect[4]))
        /\ dims[1] > 0
        /\ dims[2] > 0

\* C7 as stated: the output of preprocess_image is no wider and no higher
\* than the input, and of the input's size when no quadrilateral is accepted.
C7_OutputWithinInput ==
    (ppc = "preprocessed" /\ result.ok) =>
        /\ located.k # 0 => result.w <= image.w /\ result.h <= image.h
        /\ located.k = 0 => result.w = image.w /\ result.h = image.h

\* C7 as amended: neither side of the output of preprocess_image is longer
\* than the input's diagonal, and the output has the input's size when no
\* quadrilateral is accepted.
C7_OutputWithinDiagonal ==
    (ppc = "preprocessed" /\ result.ok) =>
        /\ result.w * result.w <= image.w * image.w + image.h * image.h
        /\ result.h * result.h <= image.w * image.w + image.h * image.h
        /\ (\A i \in DOMAIN image.contours :
                ~Meets(image.contours[i].approx, image.w, image.h))
               => result.w = image.w /\ result.h = image.h

\* A quadrilateral was accepted and the output is wider than the input.
C7_Witness ==
    /\ ppc = "preprocessed"
    /\ result.ok
    /\ located.k # 0
    /\ Meets(located.order[located.k].approx, image.w, image.h)
    /\ result.w > image.w

\* C8: on a quadrilateral given as (top-left, top-right, bottom-right,
\* bottom-left) order_points returns the same points in the same order, and
\* order_points of that output is the output.
C8_Idempotent ==
    (gpc = "reordered" /\ ConvexQuad(pts) /\ CanonicalOrder(pts)) =>
        /\ rect = pts
        /\ rect2 = rect

\* C9: for 4 distinct points forming a convex quadrilateral the corners
\* order_points returns are a permutation of the inputs.
C9_Permutation ==
    (gpc = "ordered" /\ ConvexQuad(pts)) =>
        /\ Range(rect) = Range(pts)
        /\ Cardinality(Range(rect)) = 4

\* C10: image_paths[i] is the path images[i] was read from, and the
\* "Processed" line of the i-th scanned image names that path.
C10_PathsAligned ==
    /\ \A i \in DOMAIN images :
           i \in DOMAIN image_paths /\ image_paths[i] = images[i].path
    /\ (handler = "scan_documents" /\ images # <<>> /\ ~raised) =>
           \A i \in DOMAIN images :
               i \in DOMAIN text_edit /\ text_edit[i].path = images[i].path

===========================================================================
